---------------------------- MODULE Spec2Model ----------------------------
(***************************************************************************)
(* Reflection-history analyzer (gather_history.py).                        *)
(*                                                                         *)
(* Python strings are modelled as sequences of one-character strings, so   *)
(* that strip, lower, startswith, slicing and substring tests are computed *)
(* on the characters as the code computes them.                            *)
(***************************************************************************)
EXTENDS Integers, Sequences, FiniteSets, TLC

VARIABLES
    \* parse_reflection_file
    filepath,          \* stem of the file being parsed
    content,           \* content.split("\n"): the lines of the file
    lineNo,            \* number of lines already consumed by the for loop
    current_section,   \* None or the lowercased heading text
    current_items,     \* items accumulated for the current section
    reflection,        \* the dict under construction
    ppc,               \* "idle" | "lines" | "done"
    \* analyze_recurring_themes
    reflections,       \* the list of parsed reflections
    rIdx,              \* number of reflections already counted by the for loop
    discovery_keywords,
    improvement_keywords,
    question_keywords,
    pattern_keywords,
    keyword_dates,
    themes,            \* the dict analyze_recurring_themes returns
    tpc,               \* "idle" | "count" | "done"
    \* main
    dir_exists,        \* reflections_dir.exists()
    dir_files,         \* the *.md files of the directory
    output_json,       \* "--json" in sys.argv
    reflection_files,  \* sorted(glob, reverse=True)
    fIdx,              \* number of files already visited by the for loop
    stdout,            \* what the run has printed
    exit_code,         \* the exit status of the run
    mpc                \* "idle" | "check_dir" | "find_files" | "parse" | "print" | "done"

parseVars == <<filepath, content, lineNo, current_section, current_items, reflection, ppc>>

countVars == <<rIdx, discovery_keywords, improvement_keywords, question_keywords,
               pattern_keywords, keyword_dates, tpc>>

mainVars == <<dir_exists, dir_files, output_json, reflection_files, fIdx, stdout, exit_code, mpc>>

vars == <<parseVars, reflections, themes, countVars, mainVars>>

-----------------------------------------------------------------------------
(* Characters and Python string operations *)

UpperChars == <<"A","B","C","D","E","F","G","H","I","J","K","L","M","N","O","P","Q","R","S","T","U","V","W","X","Y","Z">>
LowerChars == <<"a","b","c","d","e","f","g","h","i","j","k","l","m","n","o","p","q","r","s","t","u","v","w","x","y","z">>
DigitChars == <<"0","1","2","3","4","5","6","7","8","9">>

Range(s) == {s[k] : k \in DOMAIN s}

UpperSet == Range(UpperChars)
LetterSet == Range(UpperChars) \cup Range(LowerChars)
DigitSet == Range(DigitChars)
SpaceSet == {" ", "\t"}

IsUpper(c) == c \in UpperSet
IsLetter(c) == c \in LetterSet
IsDigit(c) == c \in DigitSet
IsSpace(c) == c \in SpaceSet

\* str.lower() on one character
LowerChar(c) ==
    IF IsUpper(c) THEN LowerChars[CHOOSE k \in DOMAIN UpperChars : UpperChars[k] = c] ELSE c

\* str.lower(), as a tuple of the lowered characters
Lower(s) == SubSeq([k \in DOMAIN s |-> LowerChar(s[k])], 1, Len(s))

\* s[n:]
DropFirst(s, n) == SubSeq(s, n + 1, Len(s))

\* s.startswith(p)
StartsWith(s, p) == Len(s) >= Len(p) /\ SubSeq(s, 1, Len(p)) = p

\* p in s
Contains(s, p) == \E k \in 0..(Len(s) - Len(p)) : SubSeq(s, k + 1, k + Len(p)) = p

RECURSIVE LStrip(_)
LStrip(s) == IF s # <<>> /\ IsSpace(Head(s)) THEN LStrip(Tail(s)) ELSE s

RECURSIVE RStrip(_)
RStrip(s) == IF s # <<>> /\ IsSpace(s[Len(s)]) THEN RStrip(SubSeq(s, 1, Len(s) - 1)) ELSE s

\* str.strip()
Strip(s) == RStrip(LStrip(s))

\* Optional values: None and a present value
None == [some |-> FALSE, val |-> <<>>]
Some(v) == [some |-> TRUE, val |-> v]
\* truthiness of an Optional[str]
Truthy(o) == o.some /\ o.val # <<>>

-----------------------------------------------------------------------------
(* Literals of the source *)

H2Marker == <<"#","#"," ">>
H3Marker == <<"#","#","#"," ">>
ItemMarker == <<"-"," ">>
CheckedBox == <<"[","x","]"," ">>
EmptyBox == <<"["," ","]"," ">>
SessionSummary == <<"s","e","s","s","i","o","n"," ","s","u","m","m","a","r","y">>

W_discover == <<"d","i","s","c","o","v","e","r">>
W_pattern == <<"p","a","t","t","e","r","n">>
W_watch == <<"w","a","t","c","h">>
W_improvement == <<"i","m","p","r","o","v","e","m","e","n","t">>
W_made == <<"m","a","d","e">>
W_issue == <<"i","s","s","u","e">>
W_created == <<"c","r","e","a","t","e","d">>
W_question == <<"q","u","e","s","t","i","o","n">>
W_anti == <<"a","n","t","i">>

Categories == {"discoveries", "improvements_made", "issues_created",
               "open_questions", "patterns_to_watch", "anti_patterns"}

-----------------------------------------------------------------------------
(* parse_reflection_file: filename, initial dict *)

\* re.match(r"(\d{4}-\d{2}-\d{2})-(.+)", filename)
DateShape(s) ==
    /\ Len(s) >= 12
    /\ \A k \in {1, 2, 3, 4, 6, 7, 9, 10} : IsDigit(s[k])
    /\ s[5] = "-" /\ s[8] = "-" /\ s[11] = "-"

\* match.group(2).replace("-", " ")
DashToSpace(s) == [k \in DOMAIN s |-> IF s[k] = "-" THEN " " ELSE s[k]]

FileDate(stem) == IF DateShape(stem) THEN SubSeq(stem, 1, 10) ELSE <<>>
FileTopic(stem) == IF DateShape(stem) THEN DashToSpace(DropFirst(stem, 11)) ELSE stem

\* filepath.stem of a *.md file
Stem(path) == SubSeq(path, 1, Len(path) - 3)

NewReflection(path) ==
    [file |-> path,
     date |-> FileDate(Stem(path)),
     topic |-> FileTopic(Stem(path)),
     summary |-> <<>>,
     discoveries |-> <<>>,
     improvements_made |-> <<>>,
     issues_created |-> <<>>,
     open_questions |-> <<>>,
     patterns_to_watch |-> <<>>,
     anti_patterns |-> <<>>]

-----------------------------------------------------------------------------
(* _save_section *)

\* mutant of SectionField: the first condition read as
\* ("discover" or "pattern") and not "watch"
SectionFieldOrBindsFirst(section) ==
    LET section_lower == Lower(section) IN
    IF (Contains(section_lower, W_discover) \/ Contains(section_lower, W_pattern))
       /\ ~Contains(section_lower, W_watch)
    THEN "discoveries"
    ELSE IF Contains(section_lower, W_improvement) /\ Contains(section_lower, W_made)
    THEN "improvements_made"
    ELSE IF Contains(section_lower, W_issue) \/ Contains(section_lower, W_created)
    THEN "issues_created"
    ELSE IF Contains(section_lower, W_question)
    THEN "open_questions"
    ELSE IF Contains(section_lower, W_watch) \/ Contains(section_lower, W_pattern)
    THEN "patterns_to_watch"
    ELSE IF Contains(section_lower, W_anti)
    THEN "anti_patterns"
    ELSE "none"

\* mutant of SectionField: the first condition without its "watch" guard
SectionFieldNoWatchGuard(section) ==
    LET section_lower == Lower(section) IN
    IF Contains(section_lower, W_discover) \/ Contains(section_lower, W_pattern)
    THEN "discoveries"
    ELSE IF Contains(section_lower, W_improvement) /\ Contains(section_lower, W_made)
    THEN "improvements_made"
    ELSE IF Contains(section_lower, W_issue) \/ Contains(section_lower, W_created)
    THEN "issues_created"
    ELSE IF Contains(section_lower, W_question)
    THEN "open_questions"
    ELSE IF Contains(section_lower, W_watch)
    THEN "patterns_to_watch"
    ELSE IF Contains(section_lower, W_anti)
    THEN "anti_patterns"
    ELSE "none"

\* the if/elif chain of _save_section: the field that is extended, or "none"
SectionField(section) ==
    LET section_lower == Lower(section) IN
    IF Contains(section_lower, W_discover)
       \/ (Contains(section_lower, W_pattern) /\ ~Contains(section_lower, W_watch))
    THEN "discoveries"
    ELSE IF Contains(section_lower, W_improvement) /\ Contains(section_lower, W_made)
    THEN "improvements_made"
    ELSE IF Contains(section_lower, W_issue) \/ Contains(section_lower, W_created)
    THEN "issues_created"
    ELSE IF Contains(section_lower, W_question)
    THEN "open_questions"
    ELSE IF Contains(section_lower, W_watch) \/ Contains(section_lower, W_pattern)
    THEN "patterns_to_watch"
    ELSE IF Contains(section_lower, W_anti)
    THEN "anti_patterns"
    ELSE "none"

\* mutant of Extend: the list is replaced by the new items
ExtendReplaces(list, items) == items

\* list.extend
Extend(list, items) == list \o items

_save_section(refl, section, items) ==
    LET f == SectionField(section) IN
    IF f = "none" THEN refl ELSE [refl EXCEPT ![f] = Extend(@, items)]

-----------------------------------------------------------------------------
(* parse_reflection_file: the loop over the lines *)

\* line = line.strip()
StrippedLine(raw) == Strip(raw)

IsHeading(line) == StartsWith(line, H2Marker)
IsSubsection(line) == ~IsHeading(line) /\ StartsWith(line, H3Marker)
IsListItem(line) == ~IsHeading(line) /\ ~StartsWith(line, H3Marker) /\ StartsWith(line, ItemMarker)
IsOtherLine(line) == ~StartsWith(line, H2Marker) /\ ~StartsWith(line, H3Marker) /\ ~StartsWith(line, ItemMarker)

\* item = line[2:].strip(), then the checkbox prefix is dropped
ItemText(line) ==
    LET item == Strip(DropFirst(line, 2)) IN
    IF StartsWith(item, CheckedBox) THEN DropFirst(item, 4)
    ELSE IF StartsWith(item, EmptyBox) THEN DropFirst(item, 4)
    ELSE item

\* the local state of the loop: <<current_section, current_items, reflection>>
PState(sec, items, refl) == [current_section |-> sec, current_items |-> items, reflection |-> refl]

\* the flush guarded by "if current_section and current_items"
SaveIfPending(st) ==
    IF Truthy(st.current_section) /\ st.current_items # <<>>
    THEN _save_section(st.reflection, st.current_section.val, st.current_items)
    ELSE st.reflection

\* mutant of OnHeading: the buffer is not reset after the flush
OnHeadingKeepsItems(st, line) ==
    PState(Some(Lower(DropFirst(line, 3))), st.current_items, SaveIfPending(st))

\* mutant of OnHeading: the buffer is reset only when a section was open
OnHeadingLeaksPreamble(st, line) ==
    PState(Some(Lower(DropFirst(line, 3))),
           IF Truthy(st.current_section) THEN <<>> ELSE st.current_items,
           SaveIfPending(st))

\* lines 60-65
OnHeading(st, line) ==
    PState(Some(Lower(DropFirst(line, 3))), <<>>, SaveIfPending(st))

\* lines 66-68
OnSubsection(st, line) == st

\* lines 69-78
OnListItem(st, line) ==
    LET item == ItemText(line) IN
    IF item # <<>>
    THEN [st EXCEPT !.current_items = Append(@, item)]
    ELSE st

\* mutant of OnOtherLine: the summary is taken in any section
OnOtherLineAnySection(st, line) ==
    IF line # <<>> /\ Truthy(st.current_section)
    THEN [st EXCEPT !.reflection.summary = line]
    ELSE st

\* lines 79-81
OnOtherLine(st, line) ==
    IF line # <<>> /\ st.current_section = Some(SessionSummary)
    THEN [st EXCEPT !.reflection.summary = line]
    ELSE st

\* one iteration of the for loop
ParseLine(st, raw) ==
    LET line == StrippedLine(raw) IN
    IF IsHeading(line) THEN OnHeading(st, line)
    ELSE IF IsSubsection(line) THEN OnSubsection(st, line)
    ELSE IF IsListItem(line) THEN OnListItem(st, line)
    ELSE OnOtherLine(st, line)

\* lines 83-85
SaveLast(st) == [st EXCEPT !.reflection = SaveIfPending(st)]

\* the for loop; each iteration is evaluated (the test on its buffer) before
\* the next is begun
RECURSIVE ParseLines(_, _)
ParseLines(st, lines) ==
    IF lines = <<>> THEN st
    ELSE LET next == ParseLine(st, Head(lines)) IN
         IF Len(next.current_items) >= 0
         THEN ParseLines(next, Tail(lines))
         ELSE next

\* parse_reflection_file on a readable file
ParseContent(path, lines) ==
    SaveLast(ParseLines(PState(None, <<>>, NewReflection(path)), lines)).reflection

-----------------------------------------------------------------------------
(* extract_keywords *)

\* the stop_words set of lines 111-123
stop_words ==
    {
     <<"t","h","e">>, <<"a">>, <<"a","n">>, <<"i","s">>,
     <<"a","r","e">>, <<"w","a","s">>, <<"w","e","r","e">>, <<"b","e">>,
     <<"b","e","e","n">>, <<"b","e","i","n","g">>, <<"h","a","v","e">>, <<"h","a","s">>,
     <<"h","a","d">>, <<"d","o">>, <<"d","o","e","s">>, <<"d","i","d">>,
     <<"w","i","l","l">>, <<"w","o","u","l","d">>, <<"c","o","u","l","d">>, <<"s","h","o","u","l","d">>,
     <<"m","a","y">>, <<"m","i","g","h","t">>, <<"m","u","s","t">>, <<"s","h","a","l","l">>,
     <<"c","a","n">>, <<"t","o">>, <<"o","f">>, <<"i","n">>,
     <<"f","o","r">>, <<"o","n">>, <<"w","i","t","h">>, <<"a","t">>,
     <<"b","y">>, <<"f","r","o","m">>, <<"a","s">>, <<"i","n","t","o">>,
     <<"t","h","r","o","u","g","h">>, <<"d","u","r","i","n","g">>, <<"b","e","f","o","r","e">>, <<"a","f","t","e","r">>,
     <<"a","b","o","v","e">>, <<"b","e","l","o","w">>, <<"b","e","t","w","e","e","n">>, <<"u","n","d","e","r">>,
     <<"a","g","a","i","n">>, <<"f","u","r","t","h","e","r">>, <<"t","h","e","n">>, <<"o","n","c","e">>,
     <<"h","e","r","e">>, <<"t","h","e","r","e">>, <<"w","h","e","n">>, <<"w","h","e","r","e">>,
     <<"w","h","y">>, <<"h","o","w">>, <<"a","l","l">>, <<"e","a","c","h">>,
     <<"f","e","w">>, <<"m","o","r","e">>, <<"m","o","s","t">>, <<"o","t","h","e","r">>,
     <<"s","o","m","e">>, <<"s","u","c","h">>, <<"n","o">>, <<"n","o","r">>,
     <<"n","o","t">>, <<"o","n","l","y">>, <<"o","w","n">>, <<"s","a","m","e">>,
     <<"s","o">>, <<"t","h","a","n">>, <<"t","o","o">>, <<"v","e","r","y">>,
     <<"j","u","s","t">>, <<"b","u","t">>, <<"a","n","d">>, <<"o","r">>,
     <<"i","f">>, <<"t","h","i","s">>, <<"t","h","a","t">>, <<"t","h","e","s","e">>,
     <<"t","h","o","s","e">>, <<"i","t">>, <<"i","t","s">>, <<"i">>,
     <<"w","e">>, <<"y","o","u">>, <<"h","e">>, <<"s","h","e">>,
     <<"t","h","e","y">>, <<"a","d","d","e","d">>, <<"u","p","d","a","t","e","d">>, <<"c","r","e","a","t","e","d">>,
     <<"f","i","x","e","d">>, <<"i","s","s","u","e">>, <<"b","d">>, <<"s","e","e">>,
     <<"a","l","s","o">>
    }

\* [a-zA-Z0-9_-] and \w, on lowercased text
IsKeywordChar(c) == IsLetter(c) \/ IsDigit(c) \/ c = "_" \/ c = "-"
IsWordChar(c) == IsLetter(c) \/ IsDigit(c) \/ c = "_"

\* \b before position i
BoundaryBefore(s, i) == i = 1 \/ ~IsWordChar(s[i - 1])

\* the last position of the run of [a-zA-Z0-9_-] that starts at i
RECURSIVE RunEnd(_, _)
RunEnd(s, i) == IF i < Len(s) /\ IsKeywordChar(s[i + 1]) THEN RunEnd(s, i + 1) ELSE i

\* the closing \b makes the match give back the hyphens that end the run
RECURSIVE LastWordChar(_, _)
LastWordChar(s, e) == IF IsWordChar(s[e]) THEN e ELSE LastWordChar(s, e - 1)

\* the positions from i on where a match can start: a letter after a \b
MatchStarts(s, i) == {j \in i..Len(s) : IsLetter(s[j]) /\ BoundaryBefore(s, j)}

\* re.findall(r"\b[a-zA-Z][a-zA-Z0-9_-]+\b", s), scanning from position i
RECURSIVE FindWords(_, _)
FindWords(s, i) ==
    IF MatchStarts(s, i) = {} THEN <<>>
    ELSE LET b == CHOOSE j \in MatchStarts(s, i) : \A k \in MatchStarts(s, i) : j <= k
             e == LastWordChar(s, RunEnd(s, b))
         IN IF e - b + 1 >= 2
            THEN <<SubSeq(s, b, e)>> \o FindWords(s, e + 1)
            ELSE FindWords(s, b + 1)

\* the filter of line 129
IsKeyword(w) == w \notin stop_words /\ Len(w) > 2

extract_keywords(text) == SelectSeq(FindWords(Lower(text), 1), IsKeyword)

-----------------------------------------------------------------------------
(* analyze_recurring_themes *)

\* collections.Counter: the keys in insertion order, each with its count
Counter0 == <<>>

CounterKeys(counter) == {counter[k].kw : k \in DOMAIN counter}

\* counter[kw] += 1
CounterAdd(counter, kw) ==
    IF kw \in CounterKeys(counter)
    THEN LET k == CHOOSE j \in DOMAIN counter : counter[j].kw = kw IN
         [counter EXCEPT ![k].n = @ + 1]
    ELSE Append(counter, [kw |-> kw, n |-> 1])

\* counter[kw] += 1 for every kw of kws in order.  The list is folded by
\* halves, and the first half is evaluated (the test on its length) before the
\* second is begun, which keeps TLC's evaluation of long lists shallow.
RECURSIVE CounterAddAll(_, _)
CounterAddAll(counter, kws) ==
    IF kws = <<>> THEN counter
    ELSE IF Len(kws) = 1 THEN CounterAdd(counter, kws[1])
    ELSE LET h == Len(kws) \div 2
             first == CounterAddAll(counter, SubSeq(kws, 1, h))
         IN IF Len(first) > 0
            THEN CounterAddAll(first, SubSeq(kws, h + 1, Len(kws)))
            ELSE first

\* the keywords of the items of one list, in the order the loops visit them
RECURSIVE ItemKeywords(_)
ItemKeywords(items) ==
    IF items = <<>> THEN <<>> ELSE extract_keywords(Head(items)) \o ItemKeywords(Tail(items))

\* keyword_dates: a dict from keyword to a set of dates, as its (kw, date) pairs
\* keyword_dates.setdefault(kw, set()).add(date) for every kw of kws
DatesAdd(kd, kws, date) == kd \cup {<<kws[k], date>> : k \in DOMAIN kws}

\* keyword_dates.get(kw, [])
DatesOf(kd, kw) == {p[2] : p \in {q \in kd : q[1] = kw}}

\* the code points, in order, of the characters of file names and dates
CodeOrder ==
    <<"-", ".", "0","1","2","3","4","5","6","7","8","9", "_",
      "a","b","c","d","e","f","g","h","i","j","k","l","m","n","o","p","q","r","s","t","u","v","w","x","y","z">>

Code(c) == CHOOSE k \in DOMAIN CodeOrder : CodeOrder[k] = c

\* a < b on str
RECURSIVE StrLess(_, _)
StrLess(a, b) ==
    IF b = <<>> THEN FALSE
    ELSE IF a = <<>> THEN TRUE
    ELSE IF Head(a) = Head(b) THEN StrLess(Tail(a), Tail(b))
    ELSE Code(Head(a)) < Code(Head(b))

\* sorted(S) for a set of str
RECURSIVE SortedStrs(_)
SortedStrs(S) ==
    IF S = {} THEN <<>>
    ELSE LET lo == CHOOSE x \in S : \A y \in S \ {x} : StrLess(x, y) IN
         <<lo>> \o SortedStrs(S \ {lo})

\* sorted(keyword_dates.get(kw, []))
SortedDates(kd, kw) == SortedStrs(DatesOf(kd, kw))

\* mutant of SortByCount: keys of equal count in reverse insertion order
SortByCountUnstable(counter) ==
    LET before(k) == {j \in DOMAIN counter :
                         \/ counter[j].n > counter[k].n
                         \/ counter[j].n = counter[k].n /\ j > k}
        at(p) == CHOOSE k \in DOMAIN counter : Cardinality(before(k)) = p - 1
    IN [p \in DOMAIN counter |-> counter[at(p)]]

\* sorted(counter.items(), key=count, reverse=True): stable, so keys of equal
\* count keep their insertion order.  Item k goes after the items of larger
\* count and the earlier items of equal count.
SortByCount(counter) ==
    LET before(k) == {j \in DOMAIN counter :
                         \/ counter[j].n > counter[k].n
                         \/ counter[j].n = counter[k].n /\ j < k}
        at(p) == CHOOSE k \in DOMAIN counter : Cardinality(before(k)) = p - 1
    IN [p \in DOMAIN counter |-> counter[at(p)]]

Take(s, n) == SubSeq(s, 1, IF Len(s) < n THEN Len(s) ELSE n)

\* Counter.most_common(n)
MostCommon(counter, n) == Take(SortByCount(counter), n)

RecurringTop == 20
DiscoveryTop == 15
ImprovementTop == 15
QuestionTop == 10
PatternTop == 10

\* mutant of IsRecurring: a single mention is enough
IsRecurringOnce(count) == count >= 1

\* line 167
IsRecurring(count) == count >= 2

\* the state of the loop of lines 142-161
TState(dk, ik, qk, pk, kd) ==
    [discovery_keywords |-> dk, improvement_keywords |-> ik,
     question_keywords |-> qk, pattern_keywords |-> pk, keyword_dates |-> kd]

TState0 == TState(Counter0, Counter0, Counter0, Counter0, {})

\* mutant of CountReflection: every category records the date
CountReflectionDatesAll(ts, r) ==
    LET date == r.date
        dkw == ItemKeywords(r.discoveries)
        ikw == ItemKeywords(r.improvements_made)
        qkw == ItemKeywords(r.open_questions)
        pkw == ItemKeywords(r.patterns_to_watch)
    IN TState(CounterAddAll(ts.discovery_keywords, dkw),
              CounterAddAll(ts.improvement_keywords, ikw),
              CounterAddAll(ts.question_keywords, qkw),
              CounterAddAll(ts.pattern_keywords, pkw),
              DatesAdd(DatesAdd(DatesAdd(DatesAdd(ts.keyword_dates, dkw, date), ikw, date),
                                qkw, date), pkw, date))

\* lines 143-161: one reflection
CountReflection(ts, r) ==
    LET date == r.date
        dkw == ItemKeywords(r.discoveries)
        ikw == ItemKeywords(r.improvements_made)
        qkw == ItemKeywords(r.open_questions)
        pkw == ItemKeywords(r.patterns_to_watch)
    IN TState(CounterAddAll(ts.discovery_keywords, dkw),
              CounterAddAll(ts.improvement_keywords, ikw),
              CounterAddAll(ts.question_keywords, qkw),
              CounterAddAll(ts.pattern_keywords, pkw),
              DatesAdd(DatesAdd(ts.keyword_dates, dkw, date), qkw, date))

\* lines 164-168
Recurring(ts) ==
    LET top == MostCommon(ts.discovery_keywords, RecurringTop)
        kept == SelectSeq(top, LAMBDA e : IsRecurring(e.n))
    IN [k \in DOMAIN kept |->
          [kw |-> kept[k].kw, count |-> kept[k].n, dates |-> SortedDates(ts.keyword_dates, kept[k].kw)]]

\* lines 170-176: the dicts, as the sequences of their items in order
ThemesOf(ts) ==
    [discovery_keywords |-> MostCommon(ts.discovery_keywords, DiscoveryTop),
     improvement_keywords |-> MostCommon(ts.improvement_keywords, ImprovementTop),
     question_keywords |-> MostCommon(ts.question_keywords, QuestionTop),
     pattern_keywords |-> MostCommon(ts.pattern_keywords, PatternTop),
     recurring_across_sessions |-> Recurring(ts)]

RECURSIVE CountReflections(_, _)
CountReflections(ts, rs) ==
    IF rs = <<>> THEN ts ELSE CountReflections(CountReflection(ts, Head(rs)), Tail(rs))

analyze_recurring_themes(rs) == ThemesOf(CountReflections(TState0, rs))

-----------------------------------------------------------------------------
(* main *)

\* a file of the directory: its name, whether read_text succeeds, its lines
File(name, readable, lines) == [name |-> name, readable |-> readable, lines |-> lines]

\* sorted(reflections_dir.glob("*.md"), reverse=True)
RECURSIVE SortedFiles(_)
SortedFiles(files) ==
    IF files = {} THEN <<>>
    ELSE LET hi == CHOOSE f \in files : \A g \in files \ {f} : StrLess(g.name, f.name) IN
         <<hi>> \o SortedFiles(files \ {hi})

\* parse_reflection_file: None when read_text raises
parse_reflection_file(f) ==
    IF f.readable THEN Some(ParseContent(f.name, f.lines)) ELSE None

\* mutant of AddParsed: an unreadable file drops the reflections read so far
AddParsedOrReset(rs, parsed) == IF parsed.some THEN Append(rs, parsed.val) ELSE <<>>

\* lines 204-206
AddParsed(rs, parsed) == IF parsed.some THEN Append(rs, parsed.val) ELSE rs

RecentShown == 5
SummaryShown == 60
RecurringShown == 10
DatesShown == 3
DiscoveryShown == 8
QuestionShown == 5

Ellipsis == <<".", ".", ".">>

\* s[-n:]
LastN(s, n) == SubSeq(s, IF Len(s) > n THEN Len(s) - n + 1 ELSE 1, Len(s))

NoOutput == [kind |-> "none"]
\* line 191
DirectoryNotFoundError == [kind |-> "error", error |-> "Directory not found"]
\* line 198
NoFilesError == [kind |-> "error", error |-> "No reflection files found"]

\* lines 212-221, without the timestamp and the directory name
JsonOutput(rs, th) ==
    [kind |-> "json",
     total_reflections |-> Len(rs),
     reflections |-> rs,
     recurring_themes |-> th]

\* lines 224-254
TextOutput(rs, th) ==
    LET recent == Take(rs, RecentShown)
        rec == Take(th.recurring_across_sessions, RecurringShown)
    IN [kind |-> "text",
        total_reflections |-> Len(rs),
        recent |-> [k \in DOMAIN recent |->
                      [date |-> recent[k].date, topic |-> recent[k].topic,
                       summary |-> IF recent[k].summary # <<>>
                                   THEN Take(recent[k].summary, SummaryShown) \o Ellipsis
                                   ELSE <<>>]],
        recurring |-> [k \in DOMAIN rec |->
                         [kw |-> rec[k].kw, count |-> rec[k].count,
                          dates |-> LastN(rec[k].dates, DatesShown)]],
        discovery_keywords |-> Take(th.discovery_keywords, DiscoveryShown),
        question_keywords |-> Take(th.question_keywords, QuestionShown)]

-----------------------------------------------------------------------------
(* Bounds and input pools of the parser specifications *)

MaxLines == 4
MaxHeadLines == 3

L_Discoveries == <<"#","#"," ","D","i","s","c","o","v","e","r","i","e","s">>
L_ImprovementsMade == <<"#","#"," ","I","m","p","r","o","v","e","m","e","n","t","s"," ","M","a","d","e">>
L_IssuesCreated == <<"#","#"," ","I","s","s","u","e","s"," ","C","r","e","a","t","e","d">>
L_OpenQuestions == <<"#","#"," ","O","p","e","n"," ","Q","u","e","s","t","i","o","n","s">>
L_PatternsToWatch == <<"#","#"," ","P","a","t","t","e","r","n","s"," ","t","o"," ","W","a","t","c","h">>
L_AntiGoals == <<"#","#"," ","A","n","t","i","-","G","o","a","l","s">>
L_AntiPatterns == <<"#","#"," ","A","n","t","i","-","P","a","t","t","e","r","n","s">>
L_RandomNotes == <<"#","#"," ","R","a","n","d","o","m"," ","N","o","t","e","s">>
L_SessionSummary == <<"#","#"," ","S","e","s","s","i","o","n"," ","S","u","m","m","a","r","y">>
L_DiscoveredPatternsToWatch == <<"#","#"," ","D","i","s","c","o","v","e","r","e","d"," ","p","a","t","t","e","r","n","s"," ","t","o"," ","w","a","t","c","h">>
L_WatchList == <<"#","#"," ","W","a","t","c","h"," ","L","i","s","t">>
L_PatternWatchQuestions == <<"#","#"," ","P","a","t","t","e","r","n"," ","W","a","t","c","h"," ","Q","u","e","s","t","i","o","n","s">>
L_Details == <<"#","#","#"," ","D","e","t","a","i","l","s">>
L_ItemStaleCache == <<"-"," ","s","t","a","l","e"," ","c","a","c","h","e">>
L_ItemFixBug == <<"-"," ","[","x","]"," ","f","i","x"," ","b","u","g">>
L_ItemTodo == <<" "," ","-"," ","["," ","]"," ","t","o","d","o">>
L_Blank == <<" "," ">>
L_WorkedOnCache == <<"W","o","r","k","e","d"," ","o","n"," ","c","a","c","h","e",".">>
L_MoreText == <<" ","m","o","r","e"," ","t","e","x","t"," ">>

DatedFile == <<"2","0","2","5","-","0","1","-","0","1","-","c","a","c","h","e","-","f","i","x",".","m","d">>

\* lines of the documents of SpecParse: two headings of one category, an
\* unmatched heading, the summary heading, a subsection, items, blank, text
ParseLinePool ==
    {L_Discoveries, L_DiscoveredPatternsToWatch, L_RandomNotes, L_SessionSummary,
     L_Details, L_ItemStaleCache, L_ItemTodo, L_Blank, L_WorkedOnCache, L_MoreText}

\* lines of the documents of SpecClassify: a heading for every rule and
\* for the overlaps of the rules, a subsection, items and text
ClassifyLinePool ==
    {L_Discoveries, L_ImprovementsMade, L_IssuesCreated, L_OpenQuestions,
     L_PatternsToWatch, L_AntiGoals, L_AntiPatterns, L_RandomNotes,
     L_DiscoveredPatternsToWatch, L_WatchList, L_PatternWatchQuestions,
     L_Details, L_ItemStaleCache, L_ItemFixBug, L_WorkedOnCache}

SeqsUpTo(S, n) == UNION {[1..k -> S] : k \in 0..n}

\* the files of the model's directories
WideItem == <<"-"," ","w","0","1"," ","w","0","2"," ","w","0","3"," ","w","0","4"," ","w","0","5"," ","w","0","6"," ","w","0","7"," ","w","0","8"," ","w","0","9"," ","w","1","0"," ","w","1","1"," ","w","1","2"," ","w","1","3"," ","w","1","4"," ","w","1","5"," ","w","1","6"," ","w","1","7"," ","w","1","8"," ","w","1","9"," ","w","2","0"," ","w","2","1">>

FileA ==
    File(<<"2","0","2","5","-","0","1","-","0","2","-","c","a","c","h","e","-","f","i","x",".","m","d">>, TRUE,
         <<<<"#","#"," ","D","i","s","c","o","v","e","r","i","e","s">>,
           <<"-"," ","C","a","c","h","i","n","g"," ","l","a","y","e","r"," ","c","a","u","s","e","s"," ","s","t","a","l","e"," ","r","e","a","d","s">>,
           <<"#","#"," ","O","p","e","n"," ","Q","u","e","s","t","i","o","n","s">>,
           <<"-"," ","W","h","y"," ","i","s"," ","t","h","e"," ","c","a","c","h","e"," ","s","t","a","l","e","?">>>>)

FileB ==
    File(<<"2","0","2","5","-","0","1","-","0","1","-","s","t","a","l","e","-","r","e","a","d","s",".","m","d">>, TRUE,
         <<<<"#","#"," ","D","i","s","c","o","v","e","r","i","e","s">>,
           <<"-"," ","C","a","c","h","i","n","g"," ","l","a","y","e","r"," ","c","a","u","s","e","s"," ","s","t","a","l","e"," ","r","e","a","d","s">>,
           <<"-"," ","[","x","]"," ","F","i","x","e","d"," ","t","h","e"," ","s","t","a","l","e"," ","c","a","c","h","e">>>>)

FileC ==
    File(<<"n","o","t","e","s",".","m","d">>, TRUE,
         <<<<"#","#"," ","S","e","s","s","i","o","n"," ","S","u","m","m","a","r","y">>,
           <<"L","o","o","k","e","d"," ","a","t"," ","t","h","e"," ","c","a","c","h","e",".">>,
           <<"#","#"," ","D","i","s","c","o","v","e","r","i","e","s">>,
           <<"-"," ","c","a","c","h","e"," ","m","i","s","s","e","s",","," ","c","a","c","h","e"," ","h","i","t","s">>,
           <<"#","#"," ","I","m","p","r","o","v","e","m","e","n","t","s"," ","M","a","d","e">>,
           <<"-"," ","A","d","d","e","d"," ","c","a","c","h","e","-","w","a","r","m","u","p"," ","s","c","r","i","p","t">>,
           <<"#","#"," ","P","a","t","t","e","r","n","s"," ","t","o"," ","W","a","t","c","h">>,
           <<"-"," ","W","a","t","c","h"," ","c","a","c","h","e","_","m","i","s","s"," ","r","a","t","e">>>>)

FileD ==
    File(<<"2","0","2","5","-","0","1","-","0","3","-","w","i","d","e",".","m","d">>, TRUE,
         <<<<"#","#"," ","D","i","s","c","o","v","e","r","i","e","s">>,
           WideItem,
           WideItem,
           <<"-"," ","w","2","0"," ","w","2","1"," ","w","0","5">>,
           <<"#","#"," ","I","m","p","r","o","v","e","m","e","n","t","s"," ","M","a","d","e">>,
           WideItem,
           <<"-"," ","w","1","8"," ","w","1","9">>,
           <<"#","#"," ","O","p","e","n"," ","Q","u","e","s","t","i","o","n","s">>,
           WideItem,
           <<"-"," ","w","2","1","?">>,
           <<"#","#"," ","P","a","t","t","e","r","n","s"," ","t","o"," ","W","a","t","c","h">>,
           WideItem,
           <<"-"," ","w","1","1"," ","w","1","2">>>>)

FileE ==
    File(<<"2","0","2","5","-","0","1","-","0","2","-","q","u","e","s","t","i","o","n","s",".","m","d">>, TRUE,
         <<<<"#","#"," ","O","p","e","n"," ","Q","u","e","s","t","i","o","n","s">>,
           <<"-"," ","I","s"," ","c","a","c","h","i","n","g"," ","n","e","e","d","e","d","?">>,
           <<"#","#"," ","D","i","s","c","o","v","e","r","i","e","s">>,
           <<"-"," ","s","t","a","l","e"," ","l","a","y","e","r">>>>)

FileF ==
    File(<<"2","0","2","4","-","1","2","-","3","1","-","e","m","p","t","y",".","m","d">>, TRUE,
         <<<<"N","o","t","h","i","n","g"," ","t","o"," ","r","e","p","o","r","t",".">>>>)

FileG ==
    File(<<"2","0","2","5","-","0","1","-","0","4","-","t","o","d","o",".","m","d">>, TRUE,
         <<<<"#","#"," ","O","p","e","n"," ","Q","u","e","s","t","i","o","n","s">>,
           <<"-"," ","s","t","a","l","e"," ","e","v","i","c","t","i","o","n","?">>,
           <<"#","#"," ","I","m","p","r","o","v","e","m","e","n","t","s"," ","M","a","d","e">>,
           <<"-"," ","c","a","c","h","e"," ","r","e","a","d","s"," ","f","i","x","e","d">>,
           <<"#","#"," ","P","a","t","t","e","r","n","s"," ","t","o"," ","W","a","t","c","h">>,
           <<"-"," ","c","a","c","h","e"," ","l","a","y","e","r">>>>)

ReadableFiles == {FileA, FileB, FileC, FileD, FileE, FileF, FileG}

\* the same file when read_text raises
Unreadable(f) == File(f.name, FALSE, <<>>)

\* the files of the directories of SpecMain, each readable or not
FilePool ==
    LET fs == {FileA, FileB, FileC, FileE, FileF} IN fs \cup {Unreadable(f) : f \in fs}

\* the reflections of the readable files
ReflectionPool == {ParseContent(f.name, f.lines) : f \in ReadableFiles}

MaxDocs == 3
MaxFiles == 3

\* the lists of up to n distinct reflections
DistinctSeqs(S, n) == {q \in SeqsUpTo(S, n) : \A i, j \in DOMAIN q : i # j => q[i] # q[j]}

\* the directories of up to n files, no two of one name
Directories(n) ==
    {d \in SUBSET FilePool :
        /\ Cardinality(d) <= n
        /\ \A f, g \in d : f.name = g.name => f = g}


-----------------------------------------------------------------------------
(* parse_reflection_file as a state machine over the lines *)

PCur == PState(current_section, current_items, reflection)

SetP(st) ==
    /\ current_section' = st.current_section
    /\ current_items' = st.current_items
    /\ reflection' = st.reflection

NextLine == StrippedLine(content[lineNo + 1])

ParseIdle ==
    /\ filepath = <<>>
    /\ content = <<>>
    /\ lineNo = 0
    /\ current_section = None
    /\ current_items = <<>>
    /\ reflection = NewReflection(<<>>)
    /\ ppc = "idle"

CountIdle ==
    /\ rIdx = 0
    /\ discovery_keywords = Counter0
    /\ improvement_keywords = Counter0
    /\ question_keywords = Counter0
    /\ pattern_keywords = Counter0
    /\ keyword_dates = {}
    /\ tpc = "idle"

NoThemes == ThemesOf(TState0)

MainIdle ==
    /\ dir_exists = FALSE
    /\ dir_files = {}
    /\ output_json = FALSE
    /\ reflection_files = <<>>
    /\ fIdx = 0
    /\ stdout = NoOutput
    /\ exit_code = 0
    /\ mpc = "idle"

ParseInit(pool, n) ==
    /\ reflections = <<>> /\ themes = NoThemes /\ CountIdle /\ MainIdle
    /\ filepath = DatedFile
    /\ content \in SeqsUpTo(pool, n)
    /\ lineNo = 0
    /\ current_section = None
    /\ current_items = <<>>
    /\ reflection = NewReflection(filepath)
    /\ ppc = "lines"

ReadHeading ==
    /\ ppc = "lines" /\ lineNo < Len(content)
    /\ IsHeading(NextLine)
    /\ SetP(OnHeading(PCur, NextLine))
    /\ lineNo' = lineNo + 1
    /\ UNCHANGED <<filepath, content, ppc, reflections, themes, countVars, mainVars>>

ReadSubsection ==
    /\ ppc = "lines" /\ lineNo < Len(content)
    /\ IsSubsection(NextLine)
    /\ SetP(OnSubsection(PCur, NextLine))
    /\ lineNo' = lineNo + 1
    /\ UNCHANGED <<filepath, content, ppc, reflections, themes, countVars, mainVars>>

ReadListItem ==
    /\ ppc = "lines" /\ lineNo < Len(content)
    /\ IsListItem(NextLine)
    /\ SetP(OnListItem(PCur, NextLine))
    /\ lineNo' = lineNo + 1
    /\ UNCHANGED <<filepath, content, ppc, reflections, themes, countVars, mainVars>>

ReadOtherLine ==
    /\ ppc = "lines" /\ lineNo < Len(content)
    /\ IsOtherLine(NextLine)
    /\ SetP(OnOtherLine(PCur, NextLine))
    /\ lineNo' = lineNo + 1
    /\ UNCHANGED <<filepath, content, ppc, reflections, themes, countVars, mainVars>>

SaveLastSection ==
    /\ ppc = "lines" /\ lineNo = Len(content)
    /\ SetP(SaveLast(PCur))
    /\ ppc' = "done"
    /\ UNCHANGED <<filepath, content, lineNo, reflections, themes, countVars, mainVars>>

ParseNext ==
    \/ ReadHeading
    \/ ReadSubsection
    \/ ReadListItem
    \/ ReadOtherLine
    \/ SaveLastSection

SpecParse == ParseInit(ParseLinePool, MaxLines) /\ [][ParseNext]_vars

SpecClassify == ParseInit(ClassifyLinePool, MaxHeadLines) /\ [][ParseNext]_vars

-----------------------------------------------------------------------------
(* analyze_recurring_themes as a state machine over the reflections *)

TCur == TState(discovery_keywords, improvement_keywords, question_keywords,
               pattern_keywords, keyword_dates)

SetT(ts) ==
    /\ discovery_keywords' = ts.discovery_keywords
    /\ improvement_keywords' = ts.improvement_keywords
    /\ question_keywords' = ts.question_keywords
    /\ pattern_keywords' = ts.pattern_keywords
    /\ keyword_dates' = ts.keyword_dates

ThemesInit ==
    /\ ParseIdle /\ MainIdle
    /\ reflections \in DistinctSeqs(ReflectionPool, MaxDocs)
    /\ rIdx = 0
    /\ discovery_keywords = Counter0
    /\ improvement_keywords = Counter0
    /\ question_keywords = Counter0
    /\ pattern_keywords = Counter0
    /\ keyword_dates = {}
    /\ themes = NoThemes
    /\ tpc = "count"

\* lines 142-161
CountNextReflection ==
    /\ tpc = "count" /\ rIdx < Len(reflections)
    /\ SetT(CountReflection(TCur, reflections[rIdx + 1]))
    /\ rIdx' = rIdx + 1
    /\ UNCHANGED <<reflections, themes, tpc, parseVars, mainVars>>

\* lines 163-176
ReturnThemes ==
    /\ tpc = "count" /\ rIdx = Len(reflections)
    /\ themes' = ThemesOf(TCur)
    /\ tpc' = "done"
    /\ UNCHANGED <<reflections, rIdx, discovery_keywords, improvement_keywords,
                   question_keywords, pattern_keywords, keyword_dates, parseVars, mainVars>>

ThemesNext == CountNextReflection \/ ReturnThemes

SpecThemes == ThemesInit /\ [][ThemesNext]_vars

-----------------------------------------------------------------------------
(* main as a state machine *)

MainInit ==
    /\ ParseIdle /\ CountIdle
    /\ reflections = <<>>
    /\ themes = NoThemes
    /\ dir_exists \in BOOLEAN
    /\ dir_files \in (IF dir_exists THEN Directories(MaxFiles) ELSE {{}})
    /\ output_json \in BOOLEAN
    /\ reflection_files = <<>>
    /\ fIdx = 0
    /\ stdout = NoOutput
    /\ exit_code = 0
    /\ mpc = "check_dir"

\* lines 190-192
DirectoryNotFound ==
    /\ mpc = "check_dir" /\ ~dir_exists
    /\ stdout' = DirectoryNotFoundError
    /\ exit_code' = 1
    /\ mpc' = "done"
    /\ UNCHANGED <<dir_exists, dir_files, output_json, reflection_files, fIdx,
                   reflections, themes, parseVars, countVars>>

DirectoryFound ==
    /\ mpc = "check_dir" /\ dir_exists
    /\ mpc' = "find_files"
    /\ UNCHANGED <<dir_exists, dir_files, output_json, reflection_files, fIdx, stdout,
                   exit_code, reflections, themes, parseVars, countVars>>

\* lines 195-199
NoReflectionFiles ==
    /\ mpc = "find_files" /\ SortedFiles(dir_files) = <<>>
    /\ reflection_files' = SortedFiles(dir_files)
    /\ stdout' = NoFilesError
    /\ exit_code' = 1
    /\ mpc' = "done"
    /\ UNCHANGED <<dir_exists, dir_files, output_json, fIdx, reflections, themes,
                   parseVars, countVars>>

\* lines 195-202
FindReflectionFiles ==
    /\ mpc = "find_files" /\ SortedFiles(dir_files) # <<>>
    /\ reflection_files' = SortedFiles(dir_files)
    /\ reflections' = <<>>
    /\ mpc' = "parse"
    /\ UNCHANGED <<dir_exists, dir_files, output_json, fIdx, stdout, exit_code, themes,
                   parseVars, countVars>>

\* lines 203-206
ParseNextFile ==
    /\ mpc = "parse" /\ fIdx < Len(reflection_files)
    /\ reflections' = AddParsed(reflections, parse_reflection_file(reflection_files[fIdx + 1]))
    /\ fIdx' = fIdx + 1
    /\ UNCHANGED <<dir_exists, dir_files, output_json, reflection_files, stdout, exit_code,
                   mpc, themes, parseVars, countVars>>

\* line 209
AnalyzeThemes ==
    /\ mpc = "parse" /\ fIdx = Len(reflection_files)
    /\ themes' = analyze_recurring_themes(reflections)
    /\ mpc' = "print"
    /\ UNCHANGED <<dir_exists, dir_files, output_json, reflection_files, fIdx, stdout,
                   exit_code, reflections, parseVars, countVars>>

\* lines 212-221
PrintJson ==
    /\ mpc = "print" /\ output_json
    /\ stdout' = JsonOutput(reflections, themes)
    /\ mpc' = "done"
    /\ UNCHANGED <<dir_exists, dir_files, output_json, reflection_files, fIdx, exit_code,
                   reflections, themes, parseVars, countVars>>

\* lines 212-218, 222-254
PrintSummary ==
    /\ mpc = "print" /\ ~output_json
    /\ stdout' = TextOutput(reflections, themes)
    /\ mpc' = "done"
    /\ UNCHANGED <<dir_exists, dir_files, output_json, reflection_files, fIdx, exit_code,
                   reflections, themes, parseVars, countVars>>

MainNext ==
    \/ DirectoryNotFound
    \/ DirectoryFound
    \/ NoReflectionFiles
    \/ FindReflectionFiles
    \/ ParseNextFile
    \/ AnalyzeThemes
    \/ PrintJson
    \/ PrintSummary

SpecMain == MainInit /\ [][MainNext]_vars

-----------------------------------------------------------------------------
(* The document as the claims read it: line kinds, the heading that governs *)
(* a line, the rule list of the classification                             *)

HeadingAt(doc, k) == StartsWith(Strip(doc[k]), H2Marker)
SubsectionAt(doc, k) == StartsWith(Strip(doc[k]), H3Marker)
ItemLineAt(doc, k) == StartsWith(Strip(doc[k]), ItemMarker)
BlankAt(doc, k) == Strip(doc[k]) = <<>>

\* the last level-2 heading before line k, 0 when there is none
Owner(doc, k) ==
    LET hs == {j \in 1..(k - 1) : HeadingAt(doc, j)} IN
    IF hs = {} THEN 0 ELSE CHOOSE j \in hs : \A i \in hs : i <= j

\* the lowercased heading text of line j
HeadingName(doc, j) == Lower(DropFirst(Strip(doc[j]), 3))

\* the six rules of the classification, on the lowercased heading text
Rule(n, name) ==
    CASE n = 1 -> Contains(name, W_discover)
                  \/ (Contains(name, W_pattern) /\ ~Contains(name, W_watch))
      [] n = 2 -> Contains(name, W_improvement) /\ Contains(name, W_made)
      [] n = 3 -> Contains(name, W_issue) \/ Contains(name, W_created)
      [] n = 4 -> Contains(name, W_question)
      [] n = 5 -> Contains(name, W_watch) \/ Contains(name, W_pattern)
      [] n = 6 -> Contains(name, W_anti)

RuleCategory == <<"discoveries", "improvements_made", "issues_created",
                  "open_questions", "patterns_to_watch", "anti_patterns">>

\* the first rule that matches, 0 when none does
FirstRule(name) ==
    LET ms == {n \in 1..6 : Rule(n, name)} IN
    IF ms = {} THEN 0 ELSE CHOOSE n \in ms : \A m \in ms : n <= m

\* the category the first matching rule names, "none" when no rule matches
ClaimedCategory(name) ==
    IF FirstRule(name) = 0 THEN "none" ELSE RuleCategory[FirstRule(name)]

\* the next step of the parser flushes a pending section
FlushDue ==
    /\ ppc = "lines"
    /\ Truthy(current_section) /\ current_items # <<>>
    /\ (lineNo = Len(content) \/ IsHeading(NextLine))

\* the name of the section a due flush saves, from the document
FlushedName == HeadingName(content, Owner(content, lineNo + 1))

\* a flush appends the pending items to category cat and to no other
FlushGoesTo(cat) ==
    \A c \in Categories :
        reflection'[c] = IF c = cat THEN reflection[c] \o current_items ELSE reflection[c]

\* for each line, the category of the item it holds: that of the heading that
\* governs it, "none" when the line is no item or has no heading before it
ItemCategories(doc) ==
    SubSeq([k \in DOMAIN doc |->
               IF ItemLineAt(doc, k) /\ Owner(doc, k) # 0
               THEN ClaimedCategory(HeadingName(doc, Owner(doc, k)))
               ELSE "none"],
           1, Len(doc))

\* the items of the level-2 sections classified to cat, in document order
RECURSIVE SectionItems(_, _, _, _)
SectionItems(doc, cats, cat, k) ==
    IF k = 0 THEN <<>>
    ELSE LET prev == SectionItems(doc, cats, cat, k - 1) IN
         IF cats[k] = cat THEN Append(prev, ItemText(Strip(doc[k]))) ELSE prev

NumItemLines(doc, k) == Cardinality({j \in 1..k : ItemLineAt(doc, j)})

TotalClassified(refl) ==
    Len(refl.discoveries) + Len(refl.improvements_made) + Len(refl.issues_created)
    + Len(refl.open_questions) + Len(refl.patterns_to_watch) + Len(refl.anti_patterns)

\* the lines that set the summary: non-blank, no heading, no subsection, no
\* item, governed by a heading whose text is "session summary" in any case
SummaryLineAt(doc, k) ==
    /\ ~BlankAt(doc, k) /\ ~HeadingAt(doc, k) /\ ~SubsectionAt(doc, k) /\ ~ItemLineAt(doc, k)
    /\ Owner(doc, k) # 0
    /\ HeadingName(doc, Owner(doc, k)) = SessionSummary

\* the last such line as the parser reads it (surrounding whitespace removed
\* by line 57), the empty string when there is none
ExpectedSummary(doc) ==
    LET ks == {k \in 1..Len(doc) : SummaryLineAt(doc, k)} IN
    IF ks = {} THEN <<>> ELSE Strip(doc[CHOOSE k \in ks : \A j \in ks : j <= k])

-----------------------------------------------------------------------------
(* Claims about the section parser *)

\* C1: when a section is flushed, its items are appended to exactly the
\* category of the first matching rule (on the lowercased heading text), and to
\* no category at all when no rule matches.
C1_FlushFollowsFirstMatchingRule ==
    [][FlushDue => FlushGoesTo(ClaimedCategory(FlushedName))]_vars

\* C1 witness: the items of a section that matches no rule have been flushed
\* at the next heading and are in no category.
C1_Witness ==
    /\ Len(content) = 3 /\ lineNo = 3
    /\ HeadingAt(content, 1) /\ FirstRule(HeadingName(content, 1)) = 0
    /\ ItemLineAt(content, 2) /\ HeadingAt(content, 3)
    /\ current_items = <<>>
    /\ TotalClassified(reflection) = 0

\* C2: after parsing, every category list is the concatenation, in document
\* order, of the items of all level-2 sections classified to it (a later section
\* of the same category appends, a level-3 heading neither flushes nor changes the
\* section), and is always a list.
C2_CategoriesAreSectionItemsInOrder ==
    ppc = "done" =>
        LET cats == ItemCategories(content) IN
        \A c \in Categories :
            /\ reflection[c] \in Seq(Range(reflection[c]))
            /\ reflection[c] = SectionItems(content, cats, c, Len(content))

\* C2 witness: two different sections of one category, each with an item, or
\* one section with a level-3 heading between two items.
C2_Witness ==
    /\ ppc = "done" /\ Len(content) = 4
    /\ Len(reflection.discoveries) = 2
    /\ HeadingAt(content, 1) /\ ItemLineAt(content, 2) /\ ItemLineAt(content, 4)
    /\ \/ HeadingAt(content, 3) /\ HeadingName(content, 3) # HeadingName(content, 1)
       \/ SubsectionAt(content, 3)

\* C3: the number of items in the six categories, together with those still
\* pending, never exceeds the number of list-item lines read so far: no line is
\* counted twice across a heading flush and the end-of-input flush.
C3_ClassifiedAtMostItemLines ==
    /\ TotalClassified(reflection) <= NumItemLines(content, lineNo)
    /\ ppc = "lines" =>
          TotalClassified(reflection) + Len(current_items) <= NumItemLines(content, lineNo)

\* C3 witness: a document parsed to the end in which a section was flushed at
\* a heading and some list-item line was dropped.
C3_Witness ==
    /\ ppc = "done"
    /\ TotalClassified(reflection) >= 1
    /\ TotalClassified(reflection) < NumItemLines(content, Len(content))
    /\ \E k \in 2..Len(content) : HeadingAt(content, k) /\ ItemLineAt(content, k - 1)

\* C4: after parsing, summary is the last non-blank line that is no level-2
\* heading, level-3 heading or list item and that lies in a section named
\* "session summary" (any case); it is empty when there is no such line.  The
\* line is the one the parser reads: with its surrounding whitespace removed.
C4_SummaryIsLastLineOfSummarySection ==
    ppc = "done" => reflection.summary = ExpectedSummary(content)

\* C4 witness: a summary was set, and a later non-blank text line of another
\* section did not change it.
C4_Witness ==
    /\ ppc = "done" /\ reflection.summary # <<>>
    /\ LET n == Len(content) IN
       /\ n >= 3
       /\ ~BlankAt(content, n) /\ ~HeadingAt(content, n)
       /\ ~SubsectionAt(content, n) /\ ~ItemLineAt(content, n)
       /\ ~SummaryLineAt(content, n)
       /\ reflection.summary # Strip(content[n])

\* C5 as stated: a flushed section whose name contains both "pattern" and
\* "watch" goes to patterns_to_watch and to no other category.
C5_PatternAndWatchAlwaysToWatch ==
    [][(FlushDue /\ Contains(FlushedName, W_pattern) /\ Contains(FlushedName, W_watch))
         => FlushGoesTo("patterns_to_watch")]_vars

\* C5 amended: a flushed section whose name contains both "pattern" and "watch"
\* goes to patterns_to_watch and to no other category, unless the name also
\* matches an earlier rule by "discover", "improvement" and "made", "issue",
\* "created" or "question".
C5_PatternAndWatchToWatchUnlessEarlierRule ==
    [][(/\ FlushDue
        /\ Contains(FlushedName, W_pattern) /\ Contains(FlushedName, W_watch)
        /\ ~Contains(FlushedName, W_discover)
        /\ ~(Contains(FlushedName, W_improvement) /\ Contains(FlushedName, W_made))
        /\ ~Contains(FlushedName, W_issue) /\ ~Contains(FlushedName, W_created)
        /\ ~Contains(FlushedName, W_question))
         => FlushGoesTo("patterns_to_watch")]_vars

\* C5 witness: the items of a section named with "pattern" and "watch" and no
\* word of an earlier rule have been saved to patterns_to_watch.
C5_Witness ==
    /\ ppc = "done" /\ Len(content) = 2
    /\ HeadingAt(content, 1) /\ ItemLineAt(content, 2)
    /\ Contains(HeadingName(content, 1), W_pattern)
    /\ Contains(HeadingName(content, 1), W_watch)
    /\ FirstRule(HeadingName(content, 1)) = 5
    /\ reflection.patterns_to_watch = <<ItemText(Strip(content[2]))>>
    /\ reflection.discoveries = <<>>

-----------------------------------------------------------------------------
(* Items before the first level-2 heading *)

\* the item texts of the list-item lines lo+1 .. hi, in order
RECURSIVE ItemsBetween(_, _, _)
ItemsBetween(doc, lo, hi) ==
    IF hi <= lo THEN <<>>
    ELSE LET prev == ItemsBetween(doc, lo, hi - 1) IN
         IF ItemLineAt(doc, hi) THEN Append(prev, ItemText(Strip(doc[hi]))) ELSE prev

\* the number of list-item lines among the first k that follow some heading
NumOwnedItemLines(doc, k) ==
    LET hs == {j \in 1..k : HeadingAt(doc, j)} IN
    IF hs = {} THEN 0
    ELSE LET first == CHOOSE j \in hs : \A i \in hs : j <= i IN
         Cardinality({j \in (first + 1)..k : ItemLineAt(doc, j)})

\* C11: list items before the first level-2 heading are never retained.  As
\* long as no heading has been read no category holds anything, also at the
\* end of a document without a heading; once a heading has been read the buffer
\* holds exactly the items that follow the last heading, so nothing of the
\* preamble is carried into the first section; and the categories and the
\* buffer together never hold more items than there are item lines under a
\* heading.
C11_PreambleItemsNeverRetained ==
    LET last == Owner(content, lineNo + 1) IN
    IF last = 0
    THEN ~Truthy(current_section) /\ TotalClassified(reflection) = 0
    ELSE /\ ppc = "lines" => current_items = ItemsBetween(content, last, lineNo)
         /\ TotalClassified(reflection) + (IF ppc = "lines" THEN Len(current_items) ELSE 0)
               <= NumOwnedItemLines(content, lineNo)

\* C11 witness: a document with an item before its first heading and another
\* item under that heading, parsed to the end: only the second item is kept.
C11_Witness ==
    /\ ppc = "done" /\ Len(content) = 3
    /\ ItemLineAt(content, 1) /\ HeadingAt(content, 2) /\ ItemLineAt(content, 3)
    /\ ItemText(Strip(content[1])) # ItemText(Strip(content[3]))
    /\ ClaimedCategory(HeadingName(content, 2)) = "discoveries"
    /\ reflection.discoveries = <<ItemText(Strip(content[3]))>>
    /\ TotalClassified(reflection) = 1

-----------------------------------------------------------------------------
(* The keyword streams as the claims read them *)

\* the keywords of category cat of all reflections, in the order they occur
RECURSIVE KeywordStream(_, _)
KeywordStream(rs, cat) ==
    IF rs = <<>> THEN <<>> ELSE ItemKeywords(Head(rs)[cat]) \o KeywordStream(Tail(rs), cat)

Occurrences(stream, kw) == Cardinality({i \in DOMAIN stream : stream[i] = kw})

FirstSeen(stream, kw) ==
    CHOOSE i \in DOMAIN stream : stream[i] = kw /\ \A j \in 1..(i - 1) : stream[j] # kw

\* the reflections in whose discoveries kw occurs
SessionsWith(rs, kw) == {i \in DOMAIN rs : kw \in Range(ItemKeywords(rs[i].discoveries))}

\* table holds the n most frequent keywords of stream with their counts, the
\* more frequent first and, of equal counts, the earlier seen first
IsTopTable(table, stream, n) ==
    LET key(k) == table[k].kw
        goesBefore(v, w) ==
            \/ Occurrences(stream, v) > Occurrences(stream, w)
            \/ /\ Occurrences(stream, v) = Occurrences(stream, w)
               /\ FirstSeen(stream, v) < FirstSeen(stream, w)
    IN /\ Len(table) <= n
       /\ \A k \in DOMAIN table :
            key(k) \in Range(stream) /\ table[k].n = Occurrences(stream, key(k))
       /\ \A k \in 1..(Len(table) - 1) : goesBefore(key(k), key(k + 1))
       /\ \A w \in Range(stream) \ {key(k) : k \in DOMAIN table} :
            Len(table) = n /\ goesBefore(key(n), w)

-----------------------------------------------------------------------------
(* Counts and dates of the recurrence entries *)

\* kw is a keyword of some item of category cat of reflection r
MentionedIn(r, cat, kw) == kw \in Range(ItemKeywords(r[cat]))

\* for each reflection, the keywords of its discoveries and of its questions
DatedMentions(rs) ==
    SubSeq([i \in DOMAIN rs |-> Range(ItemKeywords(rs[i].discoveries))
                                  \cup Range(ItemKeywords(rs[i].open_questions))],
           1, Len(rs))

\* the dates of the reflections that mention kw in a discovery or a question
MentionDates(rs, mentions, kw) == {rs[i].date : i \in {j \in DOMAIN rs : kw \in mentions[j]}}

\* C12: in every recurrence entry, count is the number of occurrences of the
\* keyword in discoveries items only, and dates is exactly the set of the dates
\* of the documents that mention the keyword in a discoveries item or an
\* open_questions item, each date once; a document that mentions it only in
\* improvements_made or patterns_to_watch adds no date.
C12_CountFromDiscoveriesDatesFromDiscoveriesAndQuestions ==
    tpc = "done" =>
        LET rec == themes.recurring_across_sessions
            stream == KeywordStream(reflections, "discoveries")
            mentions == DatedMentions(reflections)
        IN \A k \in DOMAIN rec :
              /\ rec[k].count = Occurrences(stream, rec[k].kw)
              /\ Range(rec[k].dates) = MentionDates(reflections, mentions, rec[k].kw)
              /\ Len(rec[k].dates) = Cardinality(MentionDates(reflections, mentions, rec[k].kw))

\* C12 witness: an entry whose keyword one document, the only one of its
\* date, mentions only in a question, adding its date without adding to the
\* count, while another document mentions the keyword only in an improvement
\* and a pattern and adds no date.
C12_Witness ==
    /\ tpc = "done"
    /\ \E k \in DOMAIN themes.recurring_across_sessions :
          LET e == themes.recurring_across_sessions[k]
              onlyIn(r, cats) ==
                  /\ \A c \in cats : MentionedIn(r, c, e.kw)
                  /\ \A c \in {"discoveries", "improvements_made", "open_questions",
                                "patterns_to_watch"} \ cats : ~MentionedIn(r, c, e.kw)
          IN /\ \E i \in DOMAIN reflections :
                   /\ onlyIn(reflections[i], {"open_questions"})
                   /\ reflections[i].date \in Range(e.dates)
                   /\ \A j \in DOMAIN reflections \ {i} :
                         reflections[j].date # reflections[i].date
             /\ \E i \in DOMAIN reflections :
                   /\ onlyIn(reflections[i], {"improvements_made", "patterns_to_watch"})
                   /\ reflections[i].date \notin Range(e.dates)
             /\ Len(e.dates) = 2

-----------------------------------------------------------------------------
(* Claims about the theme aggregator *)

\* C6: every entry of recurring_across_sessions has a discovery count of at
\* least 2, there are at most 20 entries in descending order of count, and the
\* dates of each entry are in ascending order without a duplicate.
C6_RecurringEntriesWellFormed ==
    tpc = "done" =>
        LET rec == themes.recurring_across_sessions
            stream == KeywordStream(reflections, "discoveries")
        IN /\ Len(rec) <= 20
           /\ \A k \in DOMAIN rec :
                /\ rec[k].count >= 2
                /\ rec[k].count = Occurrences(stream, rec[k].kw)
                /\ \A i, j \in DOMAIN rec[k].dates :
                      i < j => StrLess(rec[k].dates[i], rec[k].dates[j])
           /\ \A k \in 1..(Len(rec) - 1) : rec[k].count >= rec[k + 1].count

\* C6 witness: more than 20 keywords are counted twice, 20 are listed, and an
\* entry has two dates that arrived in descending order.
C6_Witness ==
    /\ tpc = "done"
    /\ LET rec == themes.recurring_across_sessions
           stream == KeywordStream(reflections, "discoveries")
       IN /\ Len(rec) = 20
          /\ Cardinality({w \in Range(stream) : Occurrences(stream, w) >= 2}) > 20
          /\ \E k \in DOMAIN rec : Len(rec[k].dates) >= 2
          /\ \E i, j \in DOMAIN reflections :
                i < j /\ StrLess(reflections[j].date, reflections[i].date)

\* C7 as stated: every keyword of recurring_across_sessions occurs in the
\* discoveries of at least two different documents.
C7_RecurringInSeveralSessions ==
    tpc = "done" =>
        \A k \in DOMAIN themes.recurring_across_sessions :
            Cardinality(SessionsWith(reflections, themes.recurring_across_sessions[k].kw)) >= 2

\* C8: each frequency table holds at most 15, 15, 10 and 10 keywords, those
\* of the highest counts in descending order of count, keywords of equal count
\* in the order they were first encountered.
C8_TablesAreCappedStableTop ==
    tpc = "done" =>
        /\ IsTopTable(themes.discovery_keywords,
                      KeywordStream(reflections, "discoveries"), 15)
        /\ IsTopTable(themes.improvement_keywords,
                      KeywordStream(reflections, "improvements_made"), 15)
        /\ IsTopTable(themes.question_keywords,
                      KeywordStream(reflections, "open_questions"), 10)
        /\ IsTopTable(themes.pattern_keywords,
                      KeywordStream(reflections, "patterns_to_watch"), 10)

\* C8 witness: every table is full and has left out keywords, and keywords of
\* equal count are listed.
C8_Witness ==
    /\ tpc = "done"
    /\ Len(themes.discovery_keywords) = 15
    /\ Len(themes.improvement_keywords) = 15
    /\ Len(themes.question_keywords) = 10
    /\ Len(themes.pattern_keywords) = 10
    /\ Cardinality(Range(KeywordStream(reflections, "discoveries"))) > 15
    /\ Cardinality(Range(KeywordStream(reflections, "improvements_made"))) > 15
    /\ Cardinality(Range(KeywordStream(reflections, "open_questions"))) > 10
    /\ Cardinality(Range(KeywordStream(reflections, "patterns_to_watch"))) > 10
    /\ themes.discovery_keywords[1].n = themes.discovery_keywords[2].n
    /\ themes.discovery_keywords[1].n > themes.discovery_keywords[15].n

-----------------------------------------------------------------------------
(* Claims about main *)

ReadableOf(files) == {f \in files : f.readable}

\* the reflections of the batch without its unreadable files
ReflectionsOf(files) ==
    LET kept == SortedFiles(ReadableOf(files)) IN
    [i \in DOMAIN kept |-> ParseContent(kept[i].name, kept[i].lines)]

Aggregated == stdout.kind \in {"json", "text"}

\* C9 as stated: a run over an existing directory that has no readable document
\* reports "No reflection files found" and exits with 1, and no aggregate
\* of 0 documents is ever printed.
C9_NoDocumentsNeverAggregated ==
    /\ (mpc = "done" /\ dir_exists /\ ReadableOf(dir_files) = {})
          => (stdout = NoFilesError /\ exit_code = 1)
    /\ Aggregated => stdout.total_reflections > 0

\* C10: unreadable files are skipped and the run goes on: with at least one
\* readable file the run ends normally, and its document list, count and themes
\* are those of the batch without the unreadable files, in the same order.
C10_UnreadableFilesAreSkipped ==
    (mpc \in {"print", "done"} /\ ReadableOf(dir_files) # {}) =>
        /\ reflections = ReflectionsOf(dir_files)
        /\ themes = analyze_recurring_themes(ReflectionsOf(dir_files))
        /\ mpc = "done" =>
              /\ exit_code = 0
              /\ Aggregated
              /\ stdout.total_reflections = Cardinality(ReadableOf(dir_files))
              /\ output_json =>
                    /\ stdout.reflections = ReflectionsOf(dir_files)
                    /\ stdout.recurring_themes = analyze_recurring_themes(ReflectionsOf(dir_files))

\* C10 witness: a finished run over two readable files and an unreadable one
\* that was visited before the last readable one.
C10_Witness ==
    /\ mpc = "done" /\ output_json
    /\ Len(reflection_files) = 3 /\ Len(reflections) = 2
    /\ ~reflection_files[2].readable

=============================================================================
